---- MODULE Spec2Model ----
(***************************************************************************)
(* A model of package composer (go-multipart-composer): the Composer with  *)
(* its boundary, its CloseReaders flag and its chain of readers, the       *)
(* append operations, the two detach operations, Close and Clear, and the  *)
(* composedReader a detach returns.                                        *)
(*                                                                         *)
(* A Go string or []byte is a sequence of one-character strings, so that   *)
(* lengths are byte counts and the wire format is compared byte by byte.   *)
(***************************************************************************)
EXTENDS Integers, Sequences, FiniteSets, TLC

(***************************************************************************)
(* Bounds of the model.                                                    *)
(***************************************************************************)
\* parts appended to the composer over one run
MaxParts == 2
\* composedReaders returned by the detach operations over one run
MaxStreams == 1
\* failed DetachReaderWithSize calls between two moments at which the composer is empty
MaxFailed == 1
\* the streams one run of the specification of the transfer may detach
MaxTransferStreams == 2

(***************************************************************************)
(* Program constants.                                                      *)
(***************************************************************************)
\* SetBoundary: len(boundary) > 70
MaxBoundaryLen == 70
\* randomBoundary: var buf [30]byte
RandLen == 30

(***************************************************************************)
(* Characters and byte strings.                                            *)
(***************************************************************************)
Upper == {"A", "B", "C", "D", "E", "F", "G", "H", "I", "J", "K", "L", "M", "N", "O", "P", "Q", "R", "S", "T", "U", "V", "W", "X", "Y", "Z"}
Lower == {"a", "b", "c", "d", "e", "f", "g", "h", "i", "j", "k", "l", "m", "n", "o", "p", "q", "r", "s", "t", "u", "v", "w", "x", "y", "z"}
Digit == {"0", "1", "2", "3", "4", "5", "6", "7", "8", "9"}

CRLF == <<"\r", "\n">>
Dashes == <<"-", "-">>
ColonSpace == <<":", " ">>

RECURSIVE Repeat(_, _)
Repeat(c, n) == IF n = 0 THEN <<>> ELSE <<c>> \o Repeat(c, n - 1)

\* the concatenation of a sequence of byte strings
RECURSIVE Flatten(_)
Flatten(ss) == IF ss = <<>> THEN <<>> ELSE Head(ss) \o Flatten(Tail(ss))

(***************************************************************************)
(* Errors: the messages of the errors the package creates, and the error   *)
(* of the operating system for a file that cannot be opened or stat'ed.    *)
(***************************************************************************)
ErrNil == "nil"
ErrSetBoundaryLate == "multipart: SetBoundary called after add"
ErrBoundaryLength == "multipart: invalid boundary length"
ErrBoundaryChar == "multipart: invalid boundary character"
ErrResetBoundaryLate == "multipart: RandomizeBoundary called after add"
ErrAddFileForbidden == "multipart: adding file by path forbidden"
ErrNoSize == "multipart: reader without size encountered"
ErrOpen == "open: no such file or directory"
ErrStat == "stat: file already closed"

(***************************************************************************)
(* escapeQuotes: strings.NewReplacer("\\", "\\\\", `"`, "\\\"") replaces   *)
(* in one pass over the input, so what it writes is never replaced again.  *)
(***************************************************************************)
\* escaping in two passes, the quotes first and the backslashes after them
escapeQuotesTwoPasses(value) ==
  LET Pass(s, c) == Flatten([i \in 1..Len(s) |-> IF s[i] = c THEN <<"\\", c>> ELSE <<s[i]>>])
  IN Pass(Pass(value, "\""), "\\")

RECURSIVE escapeQuotes(_)
escapeQuotes(value) ==
  IF value = <<>> THEN <<>>
  ELSE LET c == Head(value)
           out == IF c = "\\" THEN <<"\\", "\\">>
                  ELSE IF c = "\"" THEN <<"\\", "\"">>
                  ELSE <<c>>
       IN out \o escapeQuotes(Tail(value))

(***************************************************************************)
(* randomBoundary: 30 bytes of crypto/rand printed with %x, two lowercase  *)
(* hexadecimal digits a byte.  The random source is a choice among the     *)
(* buffers of RandomBufs.                                                  *)
(***************************************************************************)
HexDigits == <<"0", "1", "2", "3", "4", "5", "6", "7", "8", "9", "a", "b", "c", "d", "e", "f">>

HexByte(b) == <<HexDigits[(b \div 16) + 1], HexDigits[(b % 16) + 1]>>

RandomBufs == { [i \in 1..RandLen |-> 24], [i \in 1..RandLen |-> (i * 37 + 171) % 256] }

randomBoundary(buf) == Flatten([i \in 1..Len(buf) |-> HexByte(buf[i])])

(***************************************************************************)
(* SetBoundary's validation of a token (rfc2046#section-5.1.1).            *)
(***************************************************************************)
BoundaryPunct == {"'", "(", ")", "+", "_", ",", "-", ".", "/", ":", "=", "?"}

\* the loop body with the test of the position of a space left out
BoundaryCharAcceptedAnySpace(c, i, end) ==
  c \in Upper \cup Lower \cup Digit \cup BoundaryPunct \cup {" "}

\* the body of the loop over the token: TRUE when it continues, FALSE when it
\* returns the error; i and end are 0-based as in the code
BoundaryCharAccepted(c, i, end) ==
  IF c \in Upper \cup Lower \cup Digit THEN TRUE
  ELSE IF c \in BoundaryPunct THEN TRUE
  ELSE IF c = " " THEN i # end
  ELSE FALSE

\* the validation with the length test off by one
BoundaryTokenErrorOffByOne(token) ==
  IF Len(token) < 1 \/ Len(token) >= MaxBoundaryLen THEN ErrBoundaryLength
  ELSE IF \E i \in 1..Len(token) : ~BoundaryCharAccepted(token[i], i - 1, Len(token) - 1)
       THEN ErrBoundaryChar
  ELSE ErrNil

\* the error SetBoundary returns for a token once the composer is known to be empty
BoundaryTokenError(token) ==
  IF Len(token) < 1 \/ Len(token) > MaxBoundaryLen THEN ErrBoundaryLength
  ELSE IF \E i \in 1..Len(token) : ~BoundaryCharAccepted(token[i], i - 1, Len(token) - 1)
       THEN ErrBoundaryChar
  ELSE ErrNil

(***************************************************************************)
(* The byte value of a character, and the order of Go strings (bytewise,   *)
(* as sort.Strings compares them).                                         *)
(***************************************************************************)
Ord ==
  ("\r" :> 13) @@ ("\n" :> 10) @@
  (" " :> 32) @@ ("!" :> 33) @@ ("\"" :> 34) @@ ("#" :> 35) @@ ("$" :> 36) @@ ("%" :> 37) @@ ("&" :> 38) @@ ("'" :> 39) @@
  ("(" :> 40) @@ (")" :> 41) @@ ("*" :> 42) @@ ("+" :> 43) @@ ("," :> 44) @@ ("-" :> 45) @@ ("." :> 46) @@ ("/" :> 47) @@
  ("0" :> 48) @@ ("1" :> 49) @@ ("2" :> 50) @@ ("3" :> 51) @@ ("4" :> 52) @@ ("5" :> 53) @@ ("6" :> 54) @@ ("7" :> 55) @@
  ("8" :> 56) @@ ("9" :> 57) @@ (":" :> 58) @@ (";" :> 59) @@ ("<" :> 60) @@ ("=" :> 61) @@ (">" :> 62) @@ ("?" :> 63) @@
  ("@" :> 64) @@ ("A" :> 65) @@ ("B" :> 66) @@ ("C" :> 67) @@ ("D" :> 68) @@ ("E" :> 69) @@ ("F" :> 70) @@ ("G" :> 71) @@
  ("H" :> 72) @@ ("I" :> 73) @@ ("J" :> 74) @@ ("K" :> 75) @@ ("L" :> 76) @@ ("M" :> 77) @@ ("N" :> 78) @@ ("O" :> 79) @@
  ("P" :> 80) @@ ("Q" :> 81) @@ ("R" :> 82) @@ ("S" :> 83) @@ ("T" :> 84) @@ ("U" :> 85) @@ ("V" :> 86) @@ ("W" :> 87) @@
  ("X" :> 88) @@ ("Y" :> 89) @@ ("Z" :> 90) @@ ("[" :> 91) @@ ("\\" :> 92) @@ ("]" :> 93) @@ ("^" :> 94) @@ ("_" :> 95) @@
  ("a" :> 97) @@ ("b" :> 98) @@ ("c" :> 99) @@ ("d" :> 100) @@ ("e" :> 101) @@ ("f" :> 102) @@ ("g" :> 103) @@
  ("h" :> 104) @@ ("i" :> 105) @@ ("j" :> 106) @@ ("k" :> 107) @@ ("l" :> 108) @@ ("m" :> 109) @@ ("n" :> 110) @@ ("o" :> 111) @@
  ("p" :> 112) @@ ("q" :> 113) @@ ("r" :> 114) @@ ("s" :> 115) @@ ("t" :> 116) @@ ("u" :> 117) @@ ("v" :> 118) @@ ("w" :> 119) @@
  ("x" :> 120) @@ ("y" :> 121) @@ ("z" :> 122) @@ ("{" :> 123) @@ ("|" :> 124) @@ ("}" :> 125) @@ ("~" :> 126)

RECURSIVE StringLess(_, _)
StringLess(a, b) ==
  IF b = <<>> THEN FALSE
  ELSE IF a = <<>> THEN TRUE
  ELSE IF Head(a) = Head(b) THEN StringLess(Tail(a), Tail(b))
  ELSE Ord[Head(a)] < Ord[Head(b)]

\* the keys of a set, descending
RECURSIVE SortStringsDescending(_)
SortStringsDescending(keys) ==
  IF keys = {} THEN <<>>
  ELSE LET most == CHOOSE k \in keys : \A o \in keys \ {k} : StringLess(o, k)
       IN <<most>> \o SortStringsDescending(keys \ {most})

\* sort.Strings(keys): the keys of a set, ascending
RECURSIVE SortStrings(_)
SortStrings(keys) ==
  IF keys = {} THEN <<>>
  ELSE LET least == CHOOSE k \in keys : \A o \in keys \ {k} : StringLess(k, o)
       IN <<least>> \o SortStrings(keys \ {least})

(***************************************************************************)
(* File names: filepath.Base, filepath.Ext and mime.TypeByExtension as the *)
(* package calls them (slash-separated paths; the extension table holds    *)
(* the one entry the package's tests rely on).                             *)
(***************************************************************************)
RECURSIVE StripTrailingSlashes(_)
StripTrailingSlashes(path) ==
  IF Len(path) > 0 /\ path[Len(path)] = "/"
  THEN StripTrailingSlashes(SubSeq(path, 1, Len(path) - 1))
  ELSE path

RECURSIVE AfterLastSlash(_)
AfterLastSlash(path) ==
  IF \E i \in 1..Len(path) : path[i] = "/" THEN AfterLastSlash(Tail(path)) ELSE path

Base(path) ==
  IF path = <<>> THEN <<".">>
  ELSE LET stripped == StripTrailingSlashes(path)
       IN IF stripped = <<>> THEN <<"/">> ELSE AfterLastSlash(stripped)

Ext(path) ==
  LET last == AfterLastSlash(path)
      dots == {i \in 1..Len(last) : last[i] = "."}
  IN IF dots = {} THEN <<>>
     ELSE SubSeq(last, CHOOSE i \in dots : \A j \in dots : j <= i, Len(last))

TextPlain == <<"t", "e", "x", "t", "/", "p", "l", "a", "i", "n", ";", " ", "c", "h", "a", "r", "s", "e", "t", "=", "u", "t", "f", "-", "8">>
OctetStream == <<"a", "p", "p", "l", "i", "c", "a", "t", "i", "o", "n", "/", "o", "c", "t", "e", "t", "-", "s", "t", "r", "e", "a", "m">>

TypeByExtension(ext) == IF ext = <<".", "t", "x", "t">> THEN TextPlain ELSE <<>>

\* contentType := mime.TypeByExtension(filepath.Ext(fileName)), with its fallback
contentTypeOf(fileName) ==
  LET contentType == TypeByExtension(Ext(fileName))
  IN IF contentType = <<>> THEN OctetStream ELSE contentType

(***************************************************************************)
(* Part headers.  A textproto.MIMEHeader is a function from header field   *)
(* names to sequences of values.                                           *)
(***************************************************************************)
ContentDisposition == <<"C", "o", "n", "t", "e", "n", "t", "-", "D", "i", "s", "p", "o", "s", "i", "t", "i", "o", "n">>
ContentType == <<"C", "o", "n", "t", "e", "n", "t", "-", "T", "y", "p", "e">>
FormData == <<"f", "o", "r", "m", "-", "d", "a", "t", "a">>
NameKey == <<"n", "a", "m", "e">>
FilenameKey == <<"f", "i", "l", "e", "n", "a", "m", "e">>

\* fmt.Fprintf(&buf, `; %s="%s"`, key, escapeQuotes(val))
DispositionEntry(key, val) == <<";", " ">> \o key \o <<"=", "\"">> \o escapeQuotes(val) \o <<"\"">>

\* CreatePart: order is the order in which the range over the map visits the keys
CreatePart(disposition, order) ==
  ContentDisposition :>
    << FormData \o Flatten([i \in 1..Len(order) |-> DispositionEntry(order[i], disposition[order[i]])]) >>

\* the orders in which a range over a Go map may visit its keys: all of them
RECURSIVE KeyOrders(_)
KeyOrders(keys) ==
  IF keys = {} THEN {<<>>}
  ELSE UNION { { <<k>> \o rest : rest \in KeyOrders(keys \ {k}) } : k \in keys }

CreateFieldPart(name) ==
  ContentDisposition :> << FormData \o DispositionEntry(NameKey, name) >>

CreateFilePart(fieldName, fileName) ==
  (ContentDisposition :>
     << FormData \o DispositionEntry(NameKey, fieldName) \o DispositionEntry(FilenameKey, fileName) >>)
  @@ (ContentType :> << contentTypeOf(fileName) >>)

\* AddPart's two loops: the keys sorted, and for each key one line a value
HeaderLines(header) ==
  LET keys == SortStrings(DOMAIN header)
      LinesOf(key) == Flatten([j \in 1..Len(header[key]) |->
                                 key \o ColonSpace \o header[key][j] \o CRLF])
  IN Flatten([i \in 1..Len(keys) |-> LinesOf(keys[i])])

(***************************************************************************)
(* Readers.  An element of the chain is a record: id (0 for the framing    *)
(* readers the composer creates itself, the number of the content reader   *)
(* otherwise), kind, data (the bytes a read to the end yields), withSize   *)
(* and size (the sizeio.WithSize capability and what Size() returns) and   *)
(* closer (the io.ReadCloser capability).                                  *)
(***************************************************************************)
\* bytes.NewReader(b) and strings.NewReader(s): Size() is the length, no Close
BytesReader(id, data) ==
  [id |-> id, kind |-> "bytes", data |-> data, withSize |-> TRUE, size |-> Len(data), closer |-> FALSE]

\* an *os.File (or an io.PipeReader): Close, no Size method
OsFile(id, data) ==
  [id |-> id, kind |-> "file", data |-> data, withSize |-> FALSE, size |-> 0, closer |-> TRUE]

\* sizeio.OpenFile(path) and sizeio.SizeReadCloser(file, size): Close and Size
SizeReadCloser(id, data, size) ==
  [id |-> id, kind |-> "file", data |-> data, withSize |-> TRUE, size |-> size, closer |-> TRUE]

\* the *os.PathError of a second Close of a file: it names the file
ErrClosed(id) == "close file " \o ToString(id) \o ": file already closed"

\* closer.Close() on a reader, given the readers closed so far: closing a file twice fails
CloseError(reader, closedSoFar) ==
  IF reader.kind = "file" /\ reader.id \in closedSoFar THEN ErrClosed(reader.id) ELSE ErrNil

(***************************************************************************)
(* The inputs of the operations.                                           *)
(***************************************************************************)
SimpleName == <<"n">>
QuotedName == <<"q", "\"">>
Values == { <<"v">>, <<"b", "a", "r">> }
FileFieldName == <<"f", "i", "l", "e">>
TxtName == <<"a", ".", "t", "x", "t">>
PlainName == <<"m", "y">>

TestTxt == <<"t", "e", "s", "t", ".", "t", "x", "t">>
TestBin == <<"d", "e", "m", "o", "/", "t", "e", "s", "t", ".", "b", "i", "n">>
MissingTxt == <<"m", "i", "s", "s", "i", "n", "g", ".", "t", "x", "t">>
Paths == { TestTxt, TestBin, MissingTxt }
\* the files that exist, with their content
Files == (TestTxt :> <<"t", "e", "x", "t">>) @@ (TestBin :> <<"*">>)

\* the arguments of AddField
FieldInputs == { <<SimpleName, v>> : v \in Values } \cup { <<QuotedName, <<"v">> >> }

\* the arguments of AddFieldReader, the reader being reader number id
FieldReaderInputs(id) ==
  { <<SimpleName, BytesReader(id, v)>> : v \in Values } \cup { <<QuotedName, OsFile(id, <<"*">>)>> }

\* the arguments of AddFileReader
FileReaderInputs(id) ==
  { <<FileFieldName, TxtName, OsFile(id, Files[TestTxt])>>,
    <<FileFieldName, PlainName, BytesReader(id, <<"v">>)>> }

\* the arguments of AddPart
TwoKeys == (NameKey :> SimpleName) @@ (FilenameKey :> PlainName)
PartInputs(id) ==
  { <<CreateFieldPart(SimpleName), BytesReader(id, <<"v">>)>>,
    <<CreateFilePart(FileFieldName, PlainName), OsFile(id, <<"*">>)>> }
  \cup { <<CreatePart(TwoKeys, order), BytesReader(id, <<"v">>)>> : order \in KeyOrders(DOMAIN TwoKeys) }

\* the tokens a caller passes to SetBoundary
ValidToken == <<"a", " ", "/">>
Tokens ==
  { <<>>, ValidToken, <<"a", " ">>, <<"a", "<">>,
    Repeat("0", MaxBoundaryLen), Repeat("0", MaxBoundaryLen + 1) }

\* names with double quotes and backslashes: every string of at most two
\* characters over a letter, the double quote and the backslash
EscapeChars == {"a", "\"", "\\"}
EscapeNames ==
  {<<>>} \cup { <<c>> : c \in EscapeChars } \cup { <<c, d>> : c, d \in EscapeChars }
EscapeFileNames == { <<"a">>, <<"\\", "\"">>, <<"\"", "\\">> }
EscapeDispositions == { (NameKey :> n) : n \in EscapeFileNames }

\* the tokens that decide what FormDataContentType returns: each of the
\* characters of its set that a boundary may hold alone, a space between two
\* letters, and tokens without any of them
ContentTypeTokens ==
  { <<c>> : c \in {"(", ")", ",", ":", "/", "?", "="} }
    \cup { <<"a", " ", "b">>, <<"a">>, <<"'", "+", "_", "-", ".">>, <<"<">> }

\* the headers a caller builds for AddPart: two field names of which one has
\* two values, given in an order that is not the sorted one; names of which
\* one is the beginning of another, in upper and lower case; what
\* CreateFilePart returns, with one more field; and a header without fields
XId == <<"X", "-", "I", "d">>
Headers ==
  { (XId :> << <<"2">>, <<"1">> >>) @@ CreateFieldPart(SimpleName),
    (<<"a">> :> << <<"v">> >>) @@ (<<"B">> :> << <<"w">>, <<"w">> >>) @@ (<<"B", "a">> :> << <<"u">> >>),
    CreateFilePart(FileFieldName, PlainName) @@ (<<"A">> :> << <<>> >>),
    <<>> }
HeaderInputs(id) == { <<h, BytesReader(id, <<"v">>)>> : h \in Headers }

\* the inputs of the specification of the whole life of a composer: one or two
\* of each kind
LifeTokens == { <<"a", "<">> }
LifeFieldInputs == { <<SimpleName, <<"v">> >> }
LifeFieldReaderInputs(id) ==
  { <<SimpleName, BytesReader(id, <<"v">>)>>, <<SimpleName, OsFile(id, <<"*">>)>> }
LifeFileReaderInputs(id) == { <<FileFieldName, TxtName, OsFile(id, Files[TestTxt])>> }
LifePartInputs(id) == { <<CreateFieldPart(SimpleName), BytesReader(id, <<"v">>)>> }
LifePaths == { TestTxt, MissingTxt }

(***************************************************************************)
(* The state.                                                              *)
(***************************************************************************)
VARIABLES
  boundary,      \* Composer.boundary
  CloseReaders,  \* Composer.CloseReaders
  readers,       \* Composer.readers
  streams,       \* the composedReaders returned so far, in the order of their return
  closed,        \* the ids of the content readers on which Close has been called
  nextId,        \* the number of the next content reader
  appended,      \* the number of parts appended so far
  ret,           \* the last call: operation, arguments and what it returned
  parts,         \* history: the parts appended since the composer was last empty
  failed,        \* history: the failed DetachReaderWithSize calls since then
  notOwned,      \* history: the readers appended while CloseReaders was false and has stayed false
  detachLog      \* history: for each returned stream, the composer it was detached from

vars == <<boundary, CloseReaders, readers, streams, closed, nextId, appended, ret, parts, failed, notOwned, detachLog>>

\* what a call left in ret: stream is the index in streams of the returned
\* composedReader (0 for nil), released the ids on which the call invoked Close
Returned(op, arg, err, size, stream, released) ==
  [op |-> op, arg |-> arg, err |-> err, size |-> size, stream |-> stream, released |-> released]

\* what a call that returns a header left in ret
ReturnedHeader(op, arg, header) ==
  [op |-> op, arg |-> arg, err |-> ErrNil, size |-> 0, stream |-> 0, released |-> <<>>,
   header |-> header]

\* NewComposer
Init ==
  /\ \E buf \in RandomBufs : boundary = randomBoundary(buf)
  /\ CloseReaders = TRUE
  /\ readers = <<>>
  /\ streams = <<>>
  /\ closed = {}
  /\ nextId = 1
  /\ appended = 0
  /\ ret = Returned("NewComposer", <<>>, ErrNil, 0, 0, <<>>)
  /\ parts = <<>>
  /\ failed = 0
  /\ notOwned = {}
  /\ detachLog = <<>>

\* Boundary()
Boundary == boundary

\* the characters of `()<>@,;:\"/[]?= `
ContentTypeSpecials ==
  {"(", ")", "<", ">", "@", ",", ";", ":", "\\", "\"", "/", "[", "]", "?", "=", " "}

\* strings.ContainsAny
ContainsAny(s, chars) == \E i \in 1..Len(s) : s[i] \in chars

MultipartFormData ==
  <<"m", "u", "l", "t", "i", "p", "a", "r", "t", "/", "f", "o", "r", "m", "-", "d", "a", "t", "a", ";", " ", "b", "o", "u", "n", "d", "a", "r", "y", "=">>

\* the value FormDataContentType makes of boundary b, without the space in
\* the set of characters
FormDataContentTypeNoSpace(b) ==
  MultipartFormData
    \o (IF ContainsAny(b, ContentTypeSpecials \ {" "}) THEN <<"\"">> \o b \o <<"\"">> ELSE b)

\* the value FormDataContentType makes of boundary b
FormDataContentTypeOf(b) ==
  MultipartFormData
    \o (IF ContainsAny(b, ContentTypeSpecials) THEN <<"\"">> \o b \o <<"\"">> ELSE b)

\* FormDataContentType()
FormDataContentType == FormDataContentTypeOf(boundary)

(***************************************************************************)
(* Boundary operations.                                                    *)
(***************************************************************************)
\* SetBoundary without the test of the chain
SetBoundaryAnytime(token) ==
  LET err == BoundaryTokenError(token)
  IN /\ boundary' = IF err = ErrNil THEN token ELSE boundary
     /\ ret' = Returned("SetBoundary", <<token>>, err, 0, 0, <<>>)
     /\ UNCHANGED <<CloseReaders, readers, streams, closed, nextId, appended, parts, failed, notOwned, detachLog>>

SetBoundary(token) ==
  LET err == IF Len(readers) > 0 THEN ErrSetBoundaryLate ELSE BoundaryTokenError(token)
  IN /\ boundary' = IF err = ErrNil THEN token ELSE boundary
     /\ ret' = Returned("SetBoundary", <<token>>, err, 0, 0, <<>>)
     /\ UNCHANGED <<CloseReaders, readers, streams, closed, nextId, appended, parts, failed, notOwned, detachLog>>

\* ResetBoundary without the test of the chain
ResetBoundaryAnytime ==
  /\ \E buf \in RandomBufs : boundary' = randomBoundary(buf)
  /\ ret' = Returned("ResetBoundary", <<>>, ErrNil, 0, 0, <<>>)
  /\ UNCHANGED <<CloseReaders, readers, streams, closed, nextId, appended, parts, failed, notOwned, detachLog>>

ResetBoundary ==
  /\ IF Len(readers) > 0
     THEN /\ boundary' = boundary
          /\ ret' = Returned("ResetBoundary", <<>>, ErrResetBoundaryLate, 0, 0, <<>>)
     ELSE /\ \E buf \in RandomBufs : boundary' = randomBoundary(buf)
          /\ ret' = Returned("ResetBoundary", <<>>, ErrNil, 0, 0, <<>>)
  /\ UNCHANGED <<CloseReaders, readers, streams, closed, nextId, appended, parts, failed, notOwned, detachLog>>

\* an assignment to the exported field CloseReaders
SetCloseReaders(flag) ==
  /\ CloseReaders # flag
  /\ CloseReaders' = flag
  /\ notOwned' = IF flag THEN {} ELSE notOwned
  /\ ret' = Returned("SetCloseReaders", <<flag>>, ErrNil, 0, 0, <<>>)
  /\ UNCHANGED <<boundary, readers, streams, closed, nextId, appended, parts, failed, detachLog>>

(***************************************************************************)
(* Calls of CreatePart, CreateFieldPart and CreateFilePart: they return a  *)
(* header and leave the composer as it was.                                *)
(***************************************************************************)
CallCreatePart(disposition) ==
  /\ \E order \in KeyOrders(DOMAIN disposition) :
       ret' = ReturnedHeader("CreatePart", <<disposition>>, CreatePart(disposition, order))
  /\ UNCHANGED <<boundary, CloseReaders, readers, streams, closed, nextId, appended, parts, failed, notOwned, detachLog>>

CallCreateFieldPart(name) ==
  /\ ret' = ReturnedHeader("CreateFieldPart", <<name>>, CreateFieldPart(name))
  /\ UNCHANGED <<boundary, CloseReaders, readers, streams, closed, nextId, appended, parts, failed, notOwned, detachLog>>

CallCreateFilePart(fieldName, fileName) ==
  /\ ret' = ReturnedHeader("CreateFilePart", <<fieldName, fileName>>, CreateFilePart(fieldName, fileName))
  /\ UNCHANGED <<boundary, CloseReaders, readers, streams, closed, nextId, appended, parts, failed, notOwned, detachLog>>

(***************************************************************************)
(* Appending parts.                                                        *)
(***************************************************************************)
\* delimiter that does not look at the chain
delimiterAlways(rs) == CRLF

delimiter(rs) == IF Len(rs) > 0 THEN CRLF ELSE <<>>

\* "Content-Disposition: form-data; name=\"" as the format strings spell it
DispositionNameFormat == ContentDisposition \o ColonSpace \o FormData \o <<";", " ", "n", "a", "m", "e", "=", "\"">>
FilenameFormat == <<"\"", ";", " ", "f", "i", "l", "e", "n", "a", "m", "e", "=", "\"">>

\* the bytes AddPart prints to its buffer
AddPartBuffer(rs, b, header) ==
  (IF Len(rs) > 0 THEN CRLF ELSE <<>>) \o Dashes \o b \o CRLF \o HeaderLines(header) \o CRLF

\* AddField's buffer with one CRLF only between the header and the value
AddFieldBufferNoBlankLine(rs, b, name, value) ==
  delimiter(rs) \o Dashes \o b \o CRLF
    \o DispositionNameFormat \o escapeQuotes(name) \o <<"\"">> \o CRLF \o value

\* the bytes AddField prints to its buffer
AddFieldBuffer(rs, b, name, value) ==
  delimiter(rs) \o Dashes \o b \o CRLF
    \o DispositionNameFormat \o escapeQuotes(name) \o <<"\"">> \o CRLF \o CRLF \o value

\* the bytes AddFieldReader prints to its buffer
AddFieldReaderBuffer(rs, b, name) ==
  delimiter(rs) \o Dashes \o b \o CRLF
    \o DispositionNameFormat \o escapeQuotes(name) \o <<"\"">> \o CRLF \o CRLF

\* AddFileReader's buffer with the Content-Type line before the
\* Content-Disposition line
AddFileReaderBufferTypeFirst(rs, b, fieldName, fileName) ==
  delimiter(rs) \o Dashes \o b \o CRLF
    \o ContentType \o ColonSpace \o contentTypeOf(fileName) \o CRLF
    \o DispositionNameFormat \o escapeQuotes(fieldName)
    \o FilenameFormat \o escapeQuotes(fileName) \o <<"\"">> \o CRLF \o CRLF

\* the bytes AddFileReader prints to its buffer
AddFileReaderBuffer(rs, b, fieldName, fileName) ==
  delimiter(rs) \o Dashes \o b \o CRLF
    \o DispositionNameFormat \o escapeQuotes(fieldName)
    \o FilenameFormat \o escapeQuotes(fileName) \o <<"\"">> \o CRLF
    \o ContentType \o ColonSpace \o contentTypeOf(fileName) \o CRLF \o CRLF

\* an entry of the history of appended parts
Part(op, name, fileName, header, reader) ==
  [op |-> op, name |-> name, fileName |-> fileName, header |-> header, reader |-> reader]

NoHeader == <<>>

\* what every successful append leaves behind besides the chain; the history
\* keeps with the part the value CloseReaders had at the append
Appended(op, arg, part, handedOver) ==
  /\ parts' = Append(parts, part @@ ("flag" :> CloseReaders))
  /\ nextId' = nextId + handedOver
  /\ appended' = appended + 1
  /\ notOwned' = IF handedOver = 1 /\ ~CloseReaders THEN notOwned \cup {nextId} ELSE notOwned
  /\ ret' = Returned(op, arg, ErrNil, 0, 0, <<>>)
  /\ UNCHANGED <<boundary, CloseReaders, streams, closed, failed, detachLog>>

\* what a failed append leaves behind
NotAppended(op, arg, err) ==
  /\ ret' = Returned(op, arg, err, 0, 0, <<>>)
  /\ UNCHANGED <<boundary, CloseReaders, readers, streams, closed, nextId, appended, parts, failed, notOwned, detachLog>>

AddPart(header, reader) ==
  /\ appended < MaxParts
  /\ readers' = readers \o << BytesReader(0, AddPartBuffer(readers, boundary, header)), reader >>
  /\ Appended("AddPart", <<>>, Part("AddPart", <<>>, <<>>, header, reader), 1)

AddField(name, value) ==
  /\ appended < MaxParts
  /\ readers' = Append(readers, BytesReader(0, AddFieldBuffer(readers, boundary, name, value)))
  /\ Appended("AddField", <<>>,
              Part("AddField", name, <<>>, NoHeader, BytesReader(0, value)), 0)

AddFieldReader(name, reader) ==
  /\ appended < MaxParts
  /\ readers' = readers \o << BytesReader(0, AddFieldReaderBuffer(readers, boundary, name)), reader >>
  /\ Appended("AddFieldReader", <<>>,
              Part("AddFieldReader", name, <<>>, NoHeader, reader), 1)

\* the chain after AddFileReader(fieldName, fileName, reader)
addFileReader(rs, b, fieldName, fileName, reader) ==
  rs \o << BytesReader(0, AddFileReaderBuffer(rs, b, fieldName, fileName)), reader >>

AddFileReader(fieldName, fileName, reader) ==
  /\ appended < MaxParts
  /\ readers' = addFileReader(readers, boundary, fieldName, fileName, reader)
  /\ Appended("AddFileReader", <<>>,
              Part("AddFileReader", fieldName, fileName, NoHeader, reader), 1)

\* AddFile without the test of CloseReaders
AddFileWhateverTheFlag(fieldName, filePath) ==
  /\ appended < MaxParts
  /\ IF filePath \notin DOMAIN Files
     THEN NotAppended("AddFile", <<>>, ErrOpen)
     ELSE LET reader == SizeReadCloser(nextId, Files[filePath], Len(Files[filePath]))
          IN /\ readers' = addFileReader(readers, boundary, fieldName, Base(filePath), reader)
             /\ Appended("AddFile", <<>>,
                         Part("AddFile", fieldName, Base(filePath), NoHeader, reader), 1)

AddFile(fieldName, filePath) ==
  /\ appended < MaxParts
  /\ IF ~CloseReaders
     THEN NotAppended("AddFile", <<>>, ErrAddFileForbidden)
     ELSE IF filePath \notin DOMAIN Files
     THEN NotAppended("AddFile", <<>>, ErrOpen)
     ELSE LET reader == SizeReadCloser(nextId, Files[filePath], Len(Files[filePath]))
          IN /\ readers' = addFileReader(readers, boundary, fieldName, Base(filePath), reader)
             /\ Appended("AddFile", <<>>,
                         Part("AddFile", fieldName, Base(filePath), NoHeader, reader), 1)

\* file is an *os.File the caller opened on filePath; stillOpen is false when
\* the caller has closed it again, and then file.Stat() fails
AddFileObject(fieldName, filePath, stillOpen) ==
  /\ appended < MaxParts
  /\ IF ~stillOpen
     THEN NotAppended("AddFileObject", <<>>, ErrStat)
     ELSE LET reader == SizeReadCloser(nextId, Files[filePath], Len(Files[filePath]))
          IN /\ readers' = addFileReader(readers, boundary, fieldName, Base(filePath), reader)
             /\ Appended("AddFileObject", <<>>,
                         Part("AddFileObject", fieldName, Base(filePath), NoHeader, reader), 1)

(***************************************************************************)
(* Closing.                                                                *)
(***************************************************************************)
\* closeAll: Close on every reader that is an io.ReadCloser, in order; the
\* result holds the ids closed, in order, and the first error
\* closeAll that returns at the first Close that fails
RECURSIVE closeAllFailFast(_, _, _, _)
closeAllFailFast(rs, closedSoFar, released, firstErr) ==
  IF rs = <<>> THEN [released |-> released, err |-> firstErr]
  ELSE LET reader == Head(rs)
       IN IF reader.closer
          THEN LET err == CloseError(reader, closedSoFar)
               IN IF err # ErrNil
                  THEN [released |-> Append(released, reader.id), err |-> err]
                  ELSE closeAllFailFast(Tail(rs), closedSoFar \cup {reader.id},
                                        Append(released, reader.id), firstErr)
          ELSE closeAllFailFast(Tail(rs), closedSoFar, released, firstErr)

RECURSIVE closeAllFrom(_, _, _, _)
closeAllFrom(rs, closedSoFar, released, firstErr) ==
  IF rs = <<>> THEN [released |-> released, err |-> firstErr]
  ELSE LET reader == Head(rs)
       IN IF reader.closer
          THEN LET err == CloseError(reader, closedSoFar)
               IN closeAllFrom(Tail(rs), closedSoFar \cup {reader.id},
                               Append(released, reader.id),
                               IF err # ErrNil /\ firstErr = ErrNil THEN err ELSE firstErr)
          ELSE closeAllFrom(Tail(rs), closedSoFar, released, firstErr)

closeAll(rs, closedSoFar) == closeAllFrom(rs, closedSoFar, <<>>, ErrNil)

\* Close that does not look at CloseReaders
CloseWhateverTheFlag(flag, rs, closedSoFar) == closeAll(rs, closedSoFar)

\* Composer.Close as a function of the composer
Close(flag, rs, closedSoFar) ==
  IF flag THEN closeAll(rs, closedSoFar) ELSE [released |-> <<>>, err |-> ErrNil]

Range(s) == { s[i] : i \in 1..Len(s) }

\* Close that empties the chain as Clear does
CloseComposerEmptying ==
  LET done == Close(CloseReaders, readers, closed)
  IN /\ closed' = closed \cup Range(done.released)
     /\ readers' = <<>>
     /\ ret' = Returned("Close", <<>>, done.err, 0, 0, done.released)
     /\ UNCHANGED <<boundary, CloseReaders, streams, nextId, appended, parts, failed, notOwned, detachLog>>

CloseComposer ==
  LET done == Close(CloseReaders, readers, closed)
  IN /\ closed' = closed \cup Range(done.released)
     /\ ret' = Returned("Close", <<>>, done.err, 0, 0, done.released)
     /\ UNCHANGED <<boundary, CloseReaders, readers, streams, nextId, appended, parts, failed, notOwned, detachLog>>

\* Clear that closes the readers and keeps the chain
ClearKeepingReaders ==
  LET done == Close(CloseReaders, readers, closed)
  IN /\ closed' = closed \cup Range(done.released)
     /\ ret' = Returned("Clear", <<>>, ErrNil, 0, 0, done.released)
     /\ UNCHANGED <<boundary, CloseReaders, readers, streams, nextId, appended, parts, failed, notOwned, detachLog>>

Clear ==
  LET done == Close(CloseReaders, readers, closed)
  IN /\ closed' = closed \cup Range(done.released)
     /\ readers' = <<>>
     /\ parts' = <<>>
     /\ failed' = 0
     /\ ret' = Returned("Clear", <<>>, ErrNil, 0, 0, done.released)
     /\ UNCHANGED <<boundary, CloseReaders, streams, nextId, appended, notOwned, detachLog>>

(***************************************************************************)
(* Detaching.                                                              *)
(***************************************************************************)
\* appendLastBoundary without the CRLF that ends the last part
appendLastBoundaryBare(rs, b) ==
  Append(rs, BytesReader(0, Dashes \o b \o Dashes \o CRLF))

appendLastBoundary(rs, b) ==
  Append(rs, BytesReader(0, CRLF \o Dashes \o b \o Dashes \o CRLF))

\* totalSize: the sum of the sizes, or the error at the first reader without one
RECURSIVE totalSizeFrom(_, _)
totalSizeFrom(rs, size) ==
  IF rs = <<>> THEN [size |-> size, err |-> ErrNil]
  ELSE IF Head(rs).withSize THEN totalSizeFrom(Tail(rs), size + Head(rs).size)
  ELSE [size |-> 0, err |-> ErrNoSize]

\* totalSize that leaves out the last reader of the chain
totalSizeBeforeLast(rs) == totalSizeFrom(SubSeq(rs, 1, Len(rs) - 1), 0)

totalSize(rs) == totalSizeFrom(rs, 0)

\* detachReader that hands the readers over whatever CloseReaders is
detachReaderAlwaysOwning(rs, flag) ==
  [Reader |-> rs, readers |-> rs]

\* detachReader that never hands the readers over
detachReaderNeverOwning(rs, flag) ==
  [Reader |-> rs, readers |-> <<>>]

\* the composedReader detachReader builds: Reader is io.MultiReader(c.readers...),
\* readers what its Close closes
detachReader(rs, flag) ==
  [Reader |-> rs, readers |-> IF flag THEN rs ELSE <<>>]

\* what a read of a composedReader to its end yields
ReadAll(stream) == Flatten([i \in 1..Len(stream.Reader) |-> stream.Reader[i].data])

\* a detach that leaves the readers in the composer as well
DetachedKeepingReaders(op, rs, size) ==
  /\ streams' = Append(streams, detachReader(rs, CloseReaders))
  /\ readers' = rs
  /\ ret' = Returned(op, <<>>, ErrNil, size, Len(streams) + 1, <<>>)
  /\ detachLog' = Append(detachLog, [boundary |-> boundary, parts |-> parts, failed |-> failed,
                                      flag |-> CloseReaders])
  /\ UNCHANGED <<boundary, CloseReaders, closed, nextId, appended, notOwned, parts, failed>>

\* what a successful detach leaves behind
Detached(op, rs, size) ==
  /\ streams' = Append(streams, detachReader(rs, CloseReaders))
  /\ readers' = <<>>
  /\ parts' = <<>>
  /\ failed' = 0
  /\ ret' = Returned(op, <<>>, ErrNil, size, Len(streams) + 1, <<>>)
  /\ detachLog' = Append(detachLog, [boundary |-> boundary, parts |-> parts, failed |-> failed,
                                      flag |-> CloseReaders])
  /\ UNCHANGED <<boundary, CloseReaders, closed, nextId, appended, notOwned>>

\* DetachReader in a run that detaches at most limit streams
DetachReaderWithin(limit) ==
  /\ Len(streams) < limit
  /\ Detached("DetachReader", appendLastBoundary(readers, boundary), 0)

DetachReader == DetachReaderWithin(MaxStreams)

\* DetachReaderWithSize that detaches before it asks for the size
DetachReaderWithSizeDetachingFirst ==
  LET withLast == appendLastBoundary(readers, boundary)
      total == totalSize(withLast)
  IN IF total.err # ErrNil
     THEN /\ failed < MaxFailed
          /\ readers' = <<>>
          /\ parts' = <<>>
          /\ failed' = 0
          /\ ret' = Returned("DetachReaderWithSize", <<>>, total.err, 0, 0, <<>>)
          /\ UNCHANGED <<boundary, CloseReaders, streams, closed, nextId, appended, notOwned, detachLog>>
     ELSE /\ Len(streams) < MaxStreams
          /\ Detached("DetachReaderWithSize", withLast, total.size)

DetachReaderWithSize ==
  LET withLast == appendLastBoundary(readers, boundary)
      total == totalSize(withLast)
  IN IF total.err # ErrNil
     THEN /\ failed < MaxFailed
          /\ readers' = withLast
          /\ failed' = failed + 1
          /\ ret' = Returned("DetachReaderWithSize", <<>>, total.err, 0, 0, <<>>)
          /\ UNCHANGED <<boundary, CloseReaders, streams, closed, nextId, appended, parts, notOwned, detachLog>>
     ELSE /\ Len(streams) < MaxStreams
          /\ Detached("DetachReaderWithSize", withLast, total.size)

\* composedReader.Close on the i-th returned stream
StreamClose(i) ==
  LET done == closeAll(streams[i].readers, closed)
  IN /\ closed' = closed \cup Range(done.released)
     /\ ret' = Returned("StreamClose", <<i>>, done.err, 0, i, done.released)
     /\ UNCHANGED <<boundary, CloseReaders, readers, streams, nextId, appended, parts, failed, notOwned, detachLog>>

(***************************************************************************)
(* The specifications.  Spec is the whole life of a composer: every         *)
(* operation that changes the composer or a stream, each with one or two    *)
(* inputs of each kind.  The others each take the operations of one         *)
(* concern, over richer inputs, and are described where they are defined.   *)
(* WireSpec is the                                                          *)
(* composition of messages: the boundary operations over all the tokens,    *)
(* the appends over all their inputs, the detaches and Clear, with          *)
(* CloseReaders left as NewComposer set it.  BoundarySpec is the choice of   *)
(* the boundary: SetBoundary over all the tokens and ResetBoundary, on a    *)
(* composer that is filled, detached and cleared.                           *)
(***************************************************************************)
Next ==
  \/ \E token \in LifeTokens : SetBoundary(token)
  \/ ResetBoundary
  \/ \E flag \in BOOLEAN : SetCloseReaders(flag)
  \/ \E in \in LifePartInputs(nextId) : AddPart(in[1], in[2])
  \/ \E in \in LifeFieldInputs : AddField(in[1], in[2])
  \/ \E in \in LifeFieldReaderInputs(nextId) : AddFieldReader(in[1], in[2])
  \/ \E in \in LifeFileReaderInputs(nextId) : AddFileReader(in[1], in[2], in[3])
  \/ \E filePath \in LifePaths : AddFile(FileFieldName, filePath)
  \/ \E stillOpen \in BOOLEAN : AddFileObject(FileFieldName, TestBin, stillOpen)
  \/ DetachReader
  \/ DetachReaderWithSize
  \/ CloseComposer
  \/ Clear
  \/ \E i \in 1..Len(streams) : StreamClose(i)

Spec == Init /\ [][Next]_vars

WireNext ==
  \/ \E token \in { ValidToken } : SetBoundary(token)
  \/ ResetBoundary
  \/ \E in \in PartInputs(nextId) : AddPart(in[1], in[2])
  \/ \E in \in FieldInputs : AddField(in[1], in[2])
  \/ \E in \in FieldReaderInputs(nextId) : AddFieldReader(in[1], in[2])
  \/ \E in \in FileReaderInputs(nextId) : AddFileReader(in[1], in[2], in[3])
  \/ \E filePath \in Paths : AddFile(FileFieldName, filePath)
  \/ \E filePath \in DOMAIN Files, stillOpen \in BOOLEAN :
       AddFileObject(FileFieldName, filePath, stillOpen)
  \/ DetachReader
  \/ DetachReaderWithSize
  \/ Clear

WireSpec == Init /\ [][WireNext]_vars

BoundaryNext ==
  \/ \E token \in Tokens : SetBoundary(token)
  \/ ResetBoundary
  \/ \E in \in LifeFieldInputs : AddField(in[1], in[2])
  \/ \E in \in LifeFieldReaderInputs(nextId) : AddFieldReader(in[1], in[2])
  \/ DetachReader
  \/ DetachReaderWithSize
  \/ Clear

BoundarySpec == Init /\ [][BoundaryNext]_vars

\* a composer that is filled and cleared, under either value of CloseReaders
ClearNext ==
  \/ \E token \in { ValidToken } : SetBoundary(token)
  \/ ResetBoundary
  \/ \E flag \in BOOLEAN : SetCloseReaders(flag)
  \/ \E in \in LifeFieldInputs : AddField(in[1], in[2])
  \/ \E in \in LifeFieldReaderInputs(nextId) : AddFieldReader(in[1], in[2])
  \/ \E filePath \in LifePaths : AddFile(FileFieldName, filePath)
  \/ Clear

ClearSpec == Init /\ [][ClearNext]_vars

\* the boundary is chosen, and a message begun and cleared
ContentTypeNext ==
  \/ \E token \in ContentTypeTokens : SetBoundary(token)
  \/ ResetBoundary
  \/ \E in \in LifeFieldInputs : AddField(in[1], in[2])
  \/ Clear

ContentTypeSpec == Init /\ [][ContentTypeNext]_vars

\* parts with the headers of a caller, detached or cleared
HeaderNext ==
  \/ ResetBoundary
  \/ \E in \in HeaderInputs(nextId) : AddPart(in[1], in[2])
  \/ DetachReader
  \/ Clear

HeaderSpec == Init /\ [][HeaderNext]_vars

\* messages detached one after the other from one composer, and what Close
\* and Clear of the composer and Close of the streams release
TransferNext ==
  \/ \E flag \in BOOLEAN : SetCloseReaders(flag)
  \/ \E in \in LifeFieldReaderInputs(nextId) : AddFieldReader(in[1], in[2])
  \/ DetachReaderWithin(MaxTransferStreams)
  \/ CloseComposer
  \/ Clear
  \/ \E i \in 1..Len(streams) : StreamClose(i)

TransferSpec == Init /\ [][TransferNext]_vars

\* the operations that write a name between double quotes, over names with
\* double quotes and backslashes
EscapeNext ==
  \/ \E name \in EscapeNames : AddField(name, <<"v">>)
  \/ \E name \in EscapeFileNames : AddFieldReader(name, BytesReader(nextId, <<"v">>))
  \/ \E fieldName, fileName \in EscapeFileNames :
       AddFileReader(fieldName, fileName, BytesReader(nextId, <<"v">>))
  \/ \E disposition \in EscapeDispositions : CallCreatePart(disposition)
  \/ \E name \in EscapeNames : CallCreateFieldPart(name)
  \/ \E fieldName, fileName \in EscapeFileNames : CallCreateFilePart(fieldName, fileName)

EscapeSpec == Init /\ [][EscapeNext]_vars

(***************************************************************************)
(* The claims.                                                             *)
(***************************************************************************)
\* the chain holds a reader without the known-size capability
SomeReaderWithoutSize == \E i \in 1..Len(readers) : ~readers[i].withSize

\* the content readers of a chain that can be closed
Closers(rs) == { rs[i] : i \in { j \in 1..Len(rs) : rs[j].closer } }

\* C1: a DetachReaderWithSize call on a composer whose chain holds a reader
\* without size fails with the size-unavailable error and leaves the chain
\* and the boundary exactly as they were (no terminal boundary appended).
C1_FailedDetachLeavesChain ==
  [][ (ret'.op = "DetachReaderWithSize" /\ SomeReaderWithoutSize)
        => (ret'.err = ErrNoSize /\ readers' = readers /\ boundary' = boundary) ]_vars

\* the terminal boundary element of boundary b
LastBoundary(b) == <<"\r", "\n", "-", "-">> \o b \o <<"-", "-", "\r", "\n">>

\* C2 as stated: a stream detached from a composer to which no part was
\* appended holds exactly --B--CRLF, with nothing before the leading dashes.
C2_EmptyMessageWithoutCRLF ==
  \A i \in 1..Len(streams) :
    (detachLog[i].parts = <<>> /\ detachLog[i].failed = 0)
      => ReadAll(streams[i]) = <<"-", "-">> \o detachLog[i].boundary \o <<"-", "-", "\r", "\n">>

\* C2 as amended: a stream detached (by DetachReader or DetachReaderWithSize)
\* from a composer to which no part was appended holds exactly the terminal
\* boundary element CRLF--B--CRLF, B being the boundary at the detach.
C2_EmptyMessage ==
  \A i \in 1..Len(streams) :
    (detachLog[i].parts = <<>> /\ detachLog[i].failed = 0)
      => ReadAll(streams[i]) = LastBoundary(detachLog[i].boundary)

\* C2's case: DetachReaderWithSize on a new composer returned the 68 bytes of
\* the terminal element of a random boundary
C2_Witness ==
  /\ ret.op = "DetachReaderWithSize" /\ ret.err = ErrNil /\ ret.stream > 0
  /\ detachLog[ret.stream].parts = <<>>
  /\ Len(detachLog[ret.stream].boundary) = 2 * RandLen
  /\ ret.size = 68
  /\ Len(ReadAll(streams[ret.stream])) = 68

\* C3: when every reader of the chain reports a size, DetachReaderWithSize
\* succeeds and returns, with the stream, the number of bytes a read of that
\* stream to its end yields.
C3_SizeIsStreamLength ==
  [][ (ret'.op = "DetachReaderWithSize" /\ ~SomeReaderWithoutSize)
        => /\ ret'.err = ErrNil
           /\ Len(streams') = Len(streams) + 1
           /\ ret'.stream = Len(streams')
           /\ ret'.size = Len(ReadAll(streams'[ret'.stream])) ]_vars

\* C3's case: DetachReaderWithSize returned the size of a message of two parts
C3_Witness ==
  /\ ret.op = "DetachReaderWithSize" /\ ret.err = ErrNil /\ ret.stream > 0
  /\ Len(detachLog[ret.stream].parts) = 2
  /\ ret.size = Len(ReadAll(streams[ret.stream]))

\* C4: a failing DetachReaderWithSize returns a nil stream and size 0, calls
\* Close on no reader, returns no stream, and leaves in the composer every
\* reader it held before the call, in order, so the composer stays populated.
C4_FailedDetachKeepsSources ==
  [][ (ret'.op = "DetachReaderWithSize" /\ ret'.err # ErrNil)
        => /\ ret'.stream = 0 /\ ret'.size = 0
           /\ ret'.released = <<>> /\ closed' = closed
           /\ streams' = streams
           /\ Len(readers') >= Len(readers) /\ Len(readers') > 0
           /\ SubSeq(readers', 1, Len(readers)) = readers
           /\ CloseReaders' = CloseReaders ]_vars

\* C4's case: DetachReaderWithSize has failed on a composer that holds a
\* reader that is still open
C4_Witness ==
  /\ ret.op = "DetachReaderWithSize" /\ ret.err = ErrNoSize
  /\ \E r \in Closers(readers) : r.id \notin closed

NoQuoteNoBackslash(name) == \A i \in 1..Len(name) : name[i] \notin {"\"", "\\"}

\* the message of one field n with value v under boundary b, byte by byte
FieldMessage(b, n, v) ==
  <<"-", "-">> \o b \o <<"\r", "\n">>
    \o <<"C", "o", "n", "t", "e", "n", "t", "-", "D", "i", "s", "p", "o", "s", "i", "t", "i", "o", "n", ":", " ", "f", "o", "r", "m", "-", "d", "a", "t", "a", ";", " ", "n", "a", "m", "e", "=", "\"">>
    \o n \o <<"\"", "\r", "\n", "\r", "\n">> \o v
    \o <<"\r", "\n", "-", "-">> \o b \o <<"-", "-", "\r", "\n">>

\* C5: for every boundary B, name n without backslash or double quote and
\* value v, the stream detached after AddField(n, v) alone on an empty
\* composer is --B CRLF Content-Disposition: form-data; name="n" CRLF CRLF v
\* CRLF --B-- CRLF, and so is the stream after AddFieldReader(n, reader of v).
C5_SingleFieldMessage ==
  \A i \in 1..Len(streams) :
    LET h == detachLog[i]
    IN (/\ h.failed = 0 /\ Len(h.parts) = 1
        /\ h.parts[1].op \in {"AddField", "AddFieldReader"}
        /\ NoQuoteNoBackslash(h.parts[1].name))
         => ReadAll(streams[i]) = FieldMessage(h.boundary, h.parts[1].name, h.parts[1].reader.data)

\* C5's case: DetachReader has returned the message of AddField("n", "bar")
C5_Witness ==
  /\ ret.op = "DetachReader" /\ ret.stream > 0
  /\ Len(detachLog[ret.stream].parts) = 1
  /\ detachLog[ret.stream].parts[1].op = "AddField"
  /\ detachLog[ret.stream].parts[1].name = SimpleName
  /\ detachLog[ret.stream].parts[1].reader.data = <<"b", "a", "r">>

\* the headers a part is to carry, by the operation that appended it
PartHeaders(part) ==
  IF part.op \in {"AddField", "AddFieldReader"} THEN CreateFieldPart(part.name)
  ELSE IF part.op = "AddPart" THEN part.header
  ELSE CreateFilePart(part.name, part.fileName)

\* the bytes of the k-th part of a message under boundary b: no CRLF before
\* the boundary line of the first part, one CRLF before that of a later part
PartBytes(b, part, k) ==
  (IF k = 1 THEN <<>> ELSE <<"\r", "\n">>)
    \o <<"-", "-">> \o b \o <<"\r", "\n">>
    \o HeaderLines(PartHeaders(part)) \o <<"\r", "\n">>
    \o part.reader.data

MessageBytes(b, ps) == Flatten([k \in 1..Len(ps) |-> PartBytes(b, ps[k], k)])

\* what a read of a chain to its end yields
ChainBytes(rs) == Flatten([i \in 1..Len(rs) |-> rs[i].data])

\* C6: the parts appended to an empty composer, by any mix of the append
\* operations, are in the chain and in the detached stream in the order of
\* their appends, the first boundary line at offset 0 and each later one
\* preceded by exactly one CRLF; the stream ends with the terminal boundary.
C6_PartsInAppendOrder ==
  /\ failed = 0 => ChainBytes(readers) = MessageBytes(boundary, parts)
  /\ \A i \in 1..Len(streams) :
       LET h == detachLog[i]
       IN (h.failed = 0 /\ Len(h.parts) >= 1)
            => ReadAll(streams[i]) = MessageBytes(h.boundary, h.parts) \o LastBoundary(h.boundary)

\* C6's case: a stream of two parts appended by different operations
C6_Witness ==
  /\ ret.op = "DetachReader" /\ ret.stream > 0
  /\ Len(detachLog[ret.stream].parts) = 2
  /\ detachLog[ret.stream].parts[1].op = "AddFile"
  /\ detachLog[ret.stream].parts[2].op = "AddPart"

\* a token of 1 to 70 bytes, every character alphanumeric, one of the
\* punctuation characters, or a space that is not the last character
BoundaryChars ==
  Upper \cup Lower \cup Digit \cup {"'", "(", ")", "+", "_", ",", "-", ".", "/", ":", "=", "?"}
ValidBoundaryToken(token) ==
  /\ Len(token) >= 1 /\ Len(token) <= 70
  /\ \A i \in 1..Len(token) : token[i] \in BoundaryChars \/ (token[i] = " " /\ i # Len(token))

\* the last call emptied the composer
JustEmptied ==
  \/ ret.op = "Clear"
  \/ ret.op \in {"DetachReader", "DetachReaderWithSize"} /\ ret.err = ErrNil

\* C7: while the composer holds a reader, SetBoundary with any token and
\* ResetBoundary fail and leave the boundary as it was; right after Clear and
\* after a successful detach, SetBoundary with a valid token and ResetBoundary
\* succeed.
C7_BoundaryOnlyWhileEmpty ==
  [][ /\ (ret'.op \in {"SetBoundary", "ResetBoundary"} /\ Len(readers) > 0)
          => (ret'.err # ErrNil /\ boundary' = boundary)
      /\ (ret'.op = "SetBoundary" /\ JustEmptied /\ ValidBoundaryToken(ret'.arg[1]))
          => (ret'.err = ErrNil /\ boundary' = ret'.arg[1])
      /\ (ret'.op = "ResetBoundary" /\ JustEmptied) => ret'.err = ErrNil ]_vars

\* C7's case: SetBoundary has succeeded on a composer whose parts were detached
C7_Witness ==
  /\ ret.op = "SetBoundary" /\ ret.err = ErrNil /\ boundary = ret.arg[1]
  /\ Len(streams) > 0 /\ detachLog[1].parts # <<>>

\* C8: on an empty composer SetBoundary succeeds for every valid token, and
\* Boundary() then returns that token.
C8_ValidTokenAccepted ==
  [][ (ret'.op = "SetBoundary" /\ readers = <<>> /\ ValidBoundaryToken(ret'.arg[1]))
        => (ret'.err = ErrNil /\ Boundary' = ret'.arg[1]) ]_vars

\* C8's case: SetBoundary has accepted a token of 70 bytes
C8_Witness ==
  /\ ret.op = "SetBoundary" /\ ret.err = ErrNil
  /\ Len(ret.arg[1]) = 70 /\ Boundary = ret.arg[1]

InvalidBoundaryErrors == {ErrBoundaryLength, ErrBoundaryChar}

\* C9 as stated: for every token that is not valid SetBoundary fails with the
\* invalid-boundary error and Boundary() returns what it returned before.
C9_InvalidTokenRejected ==
  [][ (ret'.op = "SetBoundary" /\ ~ValidBoundaryToken(ret'.arg[1]))
        => (ret'.err \in InvalidBoundaryErrors /\ Boundary' = Boundary) ]_vars

\* C9 as amended: for every token that is not valid SetBoundary fails and
\* Boundary() returns what it returned before; the error is the
\* invalid-boundary error on an empty composer and the called-after-add error
\* on a composer that holds a reader.
C9_InvalidTokenRejectedByState ==
  [][ (ret'.op = "SetBoundary" /\ ~ValidBoundaryToken(ret'.arg[1]))
        => /\ Boundary' = Boundary
           /\ readers = <<>> => ret'.err \in InvalidBoundaryErrors
           /\ readers # <<>> => ret'.err = ErrSetBoundaryLate ]_vars

\* C9's case: SetBoundary has rejected a token that ends with a space
C9_Witness ==
  /\ ret.op = "SetBoundary" /\ ret.arg[1] = <<"a", " ">>
  /\ ret.err = ErrBoundaryChar /\ readers = <<>>

\* C10: Close with CloseReaders true calls Close on every held reader that
\* can be closed; a reader appended while CloseReaders was false, the flag
\* staying false, is closed neither by Close of the composer nor by Close of
\* a detached stream.
C10_CloseFollowsFlag ==
  /\ (ret.op = "Close" /\ CloseReaders)
       => \A r \in Closers(readers) : r.id \in Range(ret.released) /\ r.id \in closed
  /\ notOwned \cap closed = {}
  /\ ret.op \in {"Close", "Clear", "StreamClose"} => Range(ret.released) \cap notOwned = {}

\* C10's case: a reader closed by Close under CloseReaders true, and then the
\* Close of a stream that holds a file appended under CloseReaders false
C10_Witness ==
  /\ closed # {}
  /\ ret.op = "StreamClose" /\ ~CloseReaders
  /\ \E r \in Closers(streams[ret.stream].Reader) : r.id \in notOwned

\* a part whose reader the composer was given to release: a file appended by
\* AddFile or AddFileObject, or a reader with Close appended while
\* CloseReaders was true
Owned(part) ==
  part.reader.closer /\ (part.op \in {"AddFile", "AddFileObject"} \/ part.flag)

\* the ids of the owned readers among parts ps
OwnedIds(ps) == { ps[k].reader.id : k \in { j \in 1..Len(ps) : Owned(ps[j]) } }

\* C11 as stated: every owned reader the composer holds is released by Close
\* of the composer, and every owned reader a stream was detached with is
\* released by Close of that stream, whatever CloseReaders has been set to
\* since the append.
C11_OwnershipNotRevoked ==
  [][ /\ ret'.op = "Close" => OwnedIds(parts) \subseteq Range(ret'.released)
      /\ ret'.op = "StreamClose"
           => OwnedIds(detachLog[ret'.stream].parts) \subseteq Range(ret'.released) ]_vars

\* C11 as amended: the flag is read at the Close and at the detach, not at the
\* append.  Close of the composer releases the owned readers it holds if
\* CloseReaders is true at that Close and none of them if it is false; Close
\* of a stream releases the owned readers it was detached with if
\* CloseReaders was true at the detach and none of them if it was false.
C11_OwnershipFollowsFlagAtClose ==
  [][ /\ (ret'.op = "Close" /\ CloseReaders) => OwnedIds(parts) \subseteq Range(ret'.released)
      /\ (ret'.op = "Close" /\ ~CloseReaders) => OwnedIds(parts) \cap Range(ret'.released) = {}
      /\ (ret'.op = "StreamClose" /\ detachLog[ret'.stream].flag)
           => OwnedIds(detachLog[ret'.stream].parts) \subseteq Range(ret'.released)
      /\ (ret'.op = "StreamClose" /\ ~detachLog[ret'.stream].flag)
           => OwnedIds(detachLog[ret'.stream].parts) \cap Range(ret'.released) = {} ]_vars

\* C11's case: a file appended by AddFile, CloseReaders set to false before
\* the detach, and the Close of the stream has released nothing
C11_Witness ==
  /\ ret.op = "StreamClose" /\ ret.released = <<>>
  /\ ~detachLog[ret.stream].flag
  /\ \E k \in 1..Len(detachLog[ret.stream].parts) :
       detachLog[ret.stream].parts[k].op = "AddFile"

\* C12: Close of a stream detached while CloseReaders was true calls Close on
\* every reader with Close the composer held at the detach; Close of a stream
\* detached while CloseReaders was false calls Close on no reader and returns
\* no error.
C12_StreamCloseFollowsDetachFlag ==
  [][ ret'.op = "StreamClose"
        => LET i == ret'.stream
           IN IF detachLog[i].flag
              THEN /\ \A r \in Closers(streams[i].Reader) : r.id \in Range(ret'.released)
                   /\ Range(ret'.released) \subseteq closed'
              ELSE /\ ret'.released = <<>> /\ ret'.err = ErrNil
                   /\ closed' = closed ]_vars

\* C12's case: the Close of a stream detached under CloseReaders true has
\* closed a file after the flag was set to false
C12_Witness ==
  /\ ret.op = "StreamClose" /\ ret.released # <<>> /\ ret.err = ErrNil
  /\ detachLog[ret.stream].flag /\ ~CloseReaders

\* C13: AddFile called while CloseReaders is false fails with the error
\* "adding file by path forbidden" whatever the path, opens no file, and
\* leaves the chain and the boundary as they were.
C13_AddFileForbidden ==
  [][ (ret'.op = "AddFile" /\ ~CloseReaders)
        => /\ ret'.err = ErrAddFileForbidden
           /\ readers' = readers /\ boundary' = boundary
           /\ nextId' = nextId /\ parts' = parts ]_vars

\* C13's case: AddFile has been refused on a composer that holds a part
C13_Witness ==
  /\ ret.op = "AddFile" /\ ret.err = ErrAddFileForbidden
  /\ ~CloseReaders /\ Len(parts) = 1

\* the ids of the readers with Close of a chain, in the order of the chain
CloserIds(rs) ==
  LET cs == SelectSeq(rs, LAMBDA r : r.closer)
  IN [k \in 1..Len(cs) |-> cs[k].id]

\* the error of the first Close that fails when the readers ids are closed in
\* order, those of already being closed: no error when none fails
FirstFailure(ids, already) ==
  IF \A k \in 1..Len(ids) : ids[k] \notin already THEN ErrNil
  ELSE LET first == CHOOSE k \in 1..Len(ids) :
                      ids[k] \in already /\ \A j \in 1..(k - 1) : ids[j] \notin already
       IN ErrClosed(ids[first])

\* C14: Close of the composer under CloseReaders true, and Close of a stream
\* detached under CloseReaders true, call Close on every reader with Close of
\* the chain, in the order of the chain, also after a Close that failed, and
\* return the error of the first Close that failed, or no error.
C14_BestEffortSweep ==
  [][ /\ (ret'.op = "Close" /\ CloseReaders)
           => /\ ret'.released = CloserIds(readers)
              /\ ret'.err = FirstFailure(CloserIds(readers), closed)
      /\ (ret'.op = "StreamClose" /\ detachLog[ret'.stream].flag)
           => /\ ret'.released = CloserIds(streams[ret'.stream].Reader)
              /\ ret'.err = FirstFailure(CloserIds(streams[ret'.stream].Reader), closed) ]_vars

\* C14's case: a Close whose first release failed, the file having been
\* closed before, and that went on to release a second reader
C14_Witness ==
  /\ ret.op = "Close" /\ Len(ret.released) = 2
  /\ ret.err = ErrClosed(ret.released[1])

\* the headers CreatePart can return for the disposition d
CreatePartResults(d) == { CreatePart(d, order) : order \in KeyOrders(DOMAIN d) }

\* C15: for a disposition of two keys, CreatePart writes the entries in the
\* lexicographic order of the keys, so every part made by CreatePart from
\* that disposition carries the same Content-Disposition value.
C15_DispositionKeysSorted ==
  \A k \in 1..Len(parts) :
    (parts[k].op = "AddPart" /\ parts[k].header \in CreatePartResults(TwoKeys))
      => parts[k].header[ContentDisposition]
           = << FormData \o DispositionEntry(FilenameKey, TwoKeys[FilenameKey])
                         \o DispositionEntry(NameKey, TwoKeys[NameKey]) >>

Appends == {"AddPart", "AddField", "AddFieldReader", "AddFileReader", "AddFile", "AddFileObject"}

\* chain rs begins with the boundary line --b CRLF, nothing before the dashes
StartsWithBoundaryLine(rs, b) ==
  /\ Len(rs) >= 1
  /\ Len(rs[1].data) >= Len(b) + 4
  /\ SubSeq(rs[1].data, 1, Len(b) + 4) = <<"-", "-">> \o b \o <<"\r", "\n">>

\* C16: Clear calls Close on the readers Close of the composer would close
\* (every reader with Close when CloseReaders is true, none when it is false)
\* and leaves the chain empty; right after Clear, SetBoundary with a valid
\* token and ResetBoundary succeed, and an append puts the boundary line of
\* its part first in the chain, without a CRLF before it.
C16_ClearStartsAfresh ==
  [][ /\ ret'.op = "Clear"
           => /\ ret'.released = (IF CloseReaders THEN CloserIds(readers) ELSE <<>>)
              /\ closed' = closed \cup Range(ret'.released)
              /\ readers' = <<>>
      /\ (ret.op = "Clear" /\ ret'.op = "SetBoundary" /\ ValidBoundaryToken(ret'.arg[1]))
           => (ret'.err = ErrNil /\ boundary' = ret'.arg[1])
      /\ (ret.op = "Clear" /\ ret'.op = "ResetBoundary") => ret'.err = ErrNil
      /\ (ret.op = "Clear" /\ ret'.op \in Appends /\ ret'.err = ErrNil)
           => StartsWithBoundaryLine(readers', boundary) ]_vars

\* C16's case: Clear has closed the file of a part and emptied the chain of a
\* composer whose boundary had been set
C16_Witness ==
  /\ ret.op = "Clear" /\ ret.released # <<>> /\ readers = <<>>
  /\ boundary = ValidToken

\* s with each backslash doubled and each double quote preceded by one
\* backslash, every character of s treated once
Escaped(s) ==
  Flatten([i \in 1..Len(s) |->
             IF s[i] = "\\" THEN <<"\\", "\\">>
             ELSE IF s[i] = "\"" THEN <<"\\", "\"">>
             ELSE <<s[i]>>])

\* form-data; name="
FormDataName == <<"f", "o", "r", "m", "-", "d", "a", "t", "a", ";", " ", "n", "a", "m", "e", "=", "\"">>
\* "; filename="
ThenFilename == <<"\"", ";", " ", "f", "i", "l", "e", "n", "a", "m", "e", "=", "\"">>
\* Content-Disposition:
DispositionField == <<"C", "o", "n", "t", "e", "n", "t", "-", "D", "i", "s", "p", "o", "s", "i", "t", "i", "o", "n", ":", " ">>

\* the Content-Disposition value of a part appended by AddField,
\* AddFieldReader or AddFileReader, the names escaped
QuotedDisposition(part) ==
  IF part.op = "AddFileReader"
  THEN FormDataName \o Escaped(part.name) \o ThenFilename \o Escaped(part.fileName) \o <<"\"">>
  ELSE FormDataName \o Escaped(part.name) \o <<"\"">>

\* the first header line of the k-th part in the bytes of the chain
DispositionLine(b, part, k) ==
  (IF k = 1 THEN <<>> ELSE <<"\r", "\n">>) \o <<"-", "-">> \o b \o <<"\r", "\n">>
    \o DispositionField \o QuotedDisposition(part) \o <<"\r", "\n">>

\* the bytes of parts ps up to and including their first header lines
RECURSIVE LinesAt(_, _, _, _)
LinesAt(bytes, b, ps, k) ==
  IF k > Len(ps) THEN TRUE
  ELSE LET line == DispositionLine(b, ps[k], k)
           rest == PartBytes(b, ps[k], k)
       IN /\ Len(bytes) >= Len(rest)
          /\ SubSeq(bytes, 1, Len(line)) = line
          /\ LinesAt(SubSeq(bytes, Len(rest) + 1, Len(bytes)), b, ps, k + 1)

\* C17: the names AddField, AddFieldReader and AddFileReader write between
\* double quotes in the Content-Disposition line, and those CreateFieldPart,
\* CreateFilePart and CreatePart write in the value they return, are the
\* inputs with each backslash doubled and each double quote preceded by one
\* backslash, each character of the input escaped once.
C17_EscapedOnce ==
  /\ (\A k \in 1..Len(parts) : parts[k].op \in {"AddField", "AddFieldReader", "AddFileReader"})
       => LinesAt(ChainBytes(readers), boundary, parts, 1)
  /\ ret.op = "CreateFieldPart"
       => ret.header[ContentDisposition] = << FormDataName \o Escaped(ret.arg[1]) \o <<"\"">> >>
  /\ ret.op = "CreateFilePart"
       => ret.header[ContentDisposition]
            = << FormDataName \o Escaped(ret.arg[1]) \o ThenFilename \o Escaped(ret.arg[2]) \o <<"\"">> >>
  /\ ret.op = "CreatePart"
       => ret.header[ContentDisposition]
            = << FormDataName \o Escaped(ret.arg[1][NameKey]) \o <<"\"">> >>

\* C17's case: AddField has written the name backslash, double quote as two
\* backslashes, backslash, double quote
C17_Witness ==
  /\ ret.op = "AddField" /\ Len(parts) = 1
  /\ parts[1].name = <<"\\", "\"">>
  /\ readers[1].data = <<"-", "-">> \o boundary \o <<"\r", "\n">> \o DispositionField
                          \o FormDataName \o <<"\\", "\\", "\\", "\"", "\"">>
                          \o <<"\r", "\n", "\r", "\n", "v">>

\* the characters that make FormDataContentType quote the boundary
QuotingChars ==
  {" ", "(", ")", "<", ">", "@", ",", ";", ":", "\\", "\"", "/", "[", "]", "?", "="}

\* C18: FormDataContentType returns multipart/form-data; boundary= and then
\* the boundary, between double quotes if and only if the boundary holds a
\* space or one of ( ) < > @ , ; : \ " / [ ] ? =, and as it is otherwise.
C18_ContentTypeQuoting ==
  LET prefix == <<"m", "u", "l", "t", "i", "p", "a", "r", "t", "/", "f", "o", "r", "m", "-", "d", "a", "t", "a", ";", " ", "b", "o", "u", "n", "d", "a", "r", "y", "=">>
  IN IF \E i \in 1..Len(boundary) : boundary[i] \in QuotingChars
     THEN FormDataContentType = prefix \o <<"\"">> \o boundary \o <<"\"">>
     ELSE FormDataContentType = prefix \o boundary

\* C18's case: the boundary holds a space and nothing else of the set, and the
\* value has it between double quotes
C18_Witness ==
  /\ ret.op = "SetBoundary" /\ ret.err = ErrNil
  /\ boundary = <<"a", " ", "b">>
  /\ FormDataContentType
       = <<"m", "u", "l", "t", "i", "p", "a", "r", "t", "/", "f", "o", "r", "m", "-", "d", "a", "t", "a", ";", " ", "b", "o", "u", "n", "d", "a", "r", "y", "=", "\"", "a", " ", "b", "\"">>

\* name a comes before name b in the lexicographic order of the bytes
Before(a, b) ==
  \E i \in 1..(Len(b)) :
    /\ i <= Len(a) + 1
    /\ SubSeq(a, 1, i - 1) = SubSeq(b, 1, i - 1)
    /\ (i = Len(a) + 1 \/ Ord[a[i]] < Ord[b[i]])

\* the field names of a header, each once, every name before the next
NamesInOrder(header) ==
  CHOOSE names \in KeyOrders(DOMAIN header) :
    \A i \in 1..(Len(names) - 1) : Before(names[i], names[i + 1])

\* the header block of a part: the names in order, for each name one line
\* name: value CRLF a value, in the order of the values, and one empty line
HeaderBlock(header) ==
  LET names == NamesInOrder(header)
      Lines(name) ==
        Flatten([j \in 1..Len(header[name]) |->
                   name \o <<":", " ">> \o header[name][j] \o <<"\r", "\n">>])
  IN Flatten([i \in 1..Len(names) |-> Lines(names[i])]) \o <<"\r", "\n">>

\* the bytes of the parts ps appended by AddPart under boundary b
RECURSIVE AddPartBytes(_, _, _)
AddPartBytes(b, ps, k) ==
  IF k > Len(ps) THEN <<>>
  ELSE (IF k = 1 THEN <<>> ELSE <<"\r", "\n">>) \o <<"-", "-">> \o b \o <<"\r", "\n">>
         \o HeaderBlock(ps[k].header) \o ps[k].reader.data
         \o AddPartBytes(b, ps, k + 1)

\* C19: after the boundary line of a part, AddPart writes the header with the
\* field names in lexicographic order, each value of a name on a line of its
\* own ended by CRLF, in the order given, then one empty line ended by CRLF,
\* and the content follows.
C19_HeaderBlockSorted ==
  (failed = 0 /\ \A k \in 1..Len(parts) : parts[k].op = "AddPart")
    => ChainBytes(readers) = AddPartBytes(boundary, parts, 1)

\* C19's case: AddPart has written X-Id: 2 and X-Id: 1, in that order, after
\* the Content-Disposition line
C19_Witness ==
  /\ ret.op = "AddPart" /\ Len(parts) = 1
  /\ readers[1].data
       = <<"-", "-">> \o boundary \o <<"\r", "\n">> \o DispositionField \o FormDataName \o <<"n", "\"", "\r", "\n">>
           \o <<"X", "-", "I", "d", ":", " ", "2", "\r", "\n", "X", "-", "I", "d", ":", " ", "1", "\r", "\n", "\r", "\n">>

\* the places of chain rs that hold the terminal boundary element of boundary b
TerminalElements(rs, b) ==
  { k \in 1..Len(rs) : rs[k].id = 0 /\ rs[k].data = LastBoundary(b) }

\* C20: every stream returned by DetachReader or DetachReaderWithSize,
\* whatever was called on the composer before (a failed DetachReaderWithSize
\* included), holds the terminal boundary element CRLF--B--CRLF once, as its
\* last element.
C20_TerminalBoundaryOnce ==
  \A i \in 1..Len(streams) :
    LET rs == streams[i].Reader
    IN TerminalElements(rs, detachLog[i].boundary) = { Len(rs) }

\* the composer holds no reader
Empty == Len(readers) = 0
\* the composer holds a reader
Populated == Len(readers) > 0

\* C21: every append that succeeds leaves the composer Populated; a
\* Populated composer becomes Empty only by a DetachReader or
\* DetachReaderWithSize that succeeds or by Clear; Close, SetBoundary,
\* ResetBoundary, an AddFile or AddFileObject that fails and a
\* DetachReaderWithSize that fails leave a Populated composer Populated and
\* an Empty composer Empty.
C21_EmptyAndPopulated ==
  [][ /\ (ret'.op \in Appends /\ ret'.err = ErrNil) => Populated'
      /\ (Populated /\ Empty')
           => \/ ret'.op = "Clear"
              \/ ret'.op \in {"DetachReader", "DetachReaderWithSize"} /\ ret'.err = ErrNil
      /\ (\/ ret'.op \in {"Close", "SetBoundary", "ResetBoundary"}
          \/ ret'.op \in {"AddFile", "AddFileObject", "DetachReaderWithSize"} /\ ret'.err # ErrNil)
           => (Empty <=> Empty') ]_vars

\* C21's case: Close has closed the file of a composer that is still Populated
C21_Witness ==
  /\ ret.op = "Close" /\ ret.released # <<>> /\ Populated

\* the bytes of the chain AddPart(header, reader) makes of chain rs
ViaAddPart(rs, b, header, reader) ==
  ChainBytes(rs \o << BytesReader(0, AddPartBuffer(rs, b, header)), reader >>)

\* the bytes of the chain AddFieldReader(name, reader) makes of chain rs
ViaAddFieldReader(rs, b, name, reader) ==
  ChainBytes(rs \o << BytesReader(0, AddFieldReaderBuffer(rs, b, name)), reader >>)

\* C22: in every state of the composer and for every input,
\* AddFieldReader(n, r) leaves the bytes AddPart(CreateFieldPart(n), r) would
\* leave, AddFileReader(f, fn, r) those AddPart(CreateFilePart(f, fn), r)
\* would leave, and AddField(n, v) those AddFieldReader(n, reader of v) would
\* leave.
C22_ConvenienceAsAddPart ==
  [][ (ret'.op \in {"AddField", "AddFieldReader", "AddFileReader"})
        => LET p == parts'[Len(parts')]
           IN /\ ret'.op = "AddFieldReader"
                   => ChainBytes(readers')
                        = ViaAddPart(readers, boundary, CreateFieldPart(p.name), p.reader)
              /\ ret'.op = "AddFileReader"
                   => ChainBytes(readers')
                        = ViaAddPart(readers, boundary, CreateFilePart(p.name, p.fileName), p.reader)
              /\ ret'.op = "AddField"
                   => ChainBytes(readers')
                        = ViaAddFieldReader(readers, boundary, p.name, p.reader) ]_vars

\* C22's case: AddFileReader has appended a .txt file as the second part of a
\* message
C22_Witness ==
  /\ ret.op = "AddFileReader" /\ Len(parts) = 2
  /\ parts[2].fileName = TxtName /\ Len(readers) >= 3

\* bytes d begin with the dashes and token b, followed by CRLF (the boundary
\* line of a part) or by the dashes and CRLF (the terminal boundary)
BeginsWithToken(d, b) ==
  /\ Len(d) >= Len(b) + 4
  /\ SubSeq(d, 1, Len(b) + 2) = <<"-", "-">> \o b
  /\ \/ SubSeq(d, Len(b) + 3, Len(b) + 4) = <<"\r", "\n">>
     \/ /\ Len(d) = Len(b) + 6
        /\ SubSeq(d, Len(b) + 3, Len(b) + 6) = <<"-", "-", "\r", "\n">>

\* the k-th element of chain rs, if the composer wrote it, carries token b:
\* after the CRLF that separates it from what comes before, if it is not the
\* first
CarriesToken(rs, k, b) ==
  rs[k].id = 0
    => IF k = 1 /\ Len(rs) > 1 THEN BeginsWithToken(rs[k].data, b)
       ELSE /\ Len(rs[k].data) >= 2
            /\ SubSeq(rs[k].data, 1, 2) = <<"\r", "\n">>
            /\ BeginsWithToken(SubSeq(rs[k].data, 3, Len(rs[k].data)), b)

\* C23: in the stream a detach returns, the boundary line of every part and
\* the terminal boundary carry one token, the value of Boundary() at the
\* detach, whatever appends, Clear, detaches, SetBoundary and ResetBoundary
\* calls came before.
C23_OneTokenPerStream ==
  [][ (ret'.op \in {"DetachReader", "DetachReaderWithSize"} /\ ret'.err = ErrNil)
        => LET rs == streams'[ret'.stream].Reader
           IN /\ Boundary' = Boundary
              /\ \A k \in 1..Len(rs) : CarriesToken(rs, k, Boundary) ]_vars

\* C23's case: a stream of two parts detached under a boundary that
\* SetBoundary had set
C23_Witness ==
  /\ ret.op = "DetachReaderWithSize" /\ ret.err = ErrNil /\ ret.stream > 0
  /\ Len(detachLog[ret.stream].parts) = 2
  /\ detachLog[ret.stream].boundary = ValidToken

\* the readers of the callers in chain rs
HeldIn(rs) == { rs[k].id : k \in 1..Len(rs) } \ {0}

\* every reader of a caller is in the composer or in one stream, not in two
Exclusive ==
  /\ \A i \in 1..Len(streams) : HeldIn(readers) \cap HeldIn(streams[i].Reader) = {}
  /\ \A i, j \in 1..Len(streams) :
       i # j => HeldIn(streams[i].Reader) \cap HeldIn(streams[j].Reader) = {}

\* C24: once a detach has returned a stream, no call on the composer (an
\* append, Close, Clear, another detach) changes what the stream yields or
\* what its Close closes; Close and Clear of the composer call Close on no
\* reader that is in a returned stream; a reader is in the composer or in one
\* stream, never in two of them.
C24_DetachTransfers ==
  [][ /\ Len(streams') >= Len(streams)
      /\ \A i \in 1..Len(streams) :
           /\ ReadAll(streams'[i]) = ReadAll(streams[i])
           /\ streams'[i].readers = streams[i].readers
      /\ ret'.op \in {"Close", "Clear"}
           => \A i \in 1..Len(streams) : Range(ret'.released) \cap HeldIn(streams[i].Reader) = {}
      /\ Exclusive' ]_vars

\* C24's case: the second stream detached from a composer has closed its
\* file, and the file of the first stream is still open
C24_Witness ==
  /\ Len(streams) = 2
  /\ ret.op = "StreamClose" /\ ret.stream = 2 /\ ret.released # <<>>
  /\ \E r \in Closers(streams[1].Reader) : r.id \notin closed

====
